---------------------------- MODULE Spec2Model ----------------------------
(***************************************************************************)
(* Model of ecommerce/extensions/offer/models.py: the enterprise           *)
(* percentage benefit's discount allocation, the Benefit / ConditionalOffer *)
(* / Range validation run by save(), the email-domain check of an offer and *)
(* the range membership check with its cache in front of the course        *)
(* catalog service.                                                        *)
(*                                                                         *)
(* Money is counted in cents (an integer); a Python string is the sequence *)
(* of its characters; None is the empty tuple and a value x that may be    *)
(* None is the one-element tuple <<x>>.                                    *)
(***************************************************************************)
EXTENDS Integers, Sequences, FiniteSets, TLC

VARIABLES
    \* ---- EnterpriseCustomerUserPercentageBenefit.apply
    apply_in,                   \* the call's inputs (benefit, basket, arguments)
    pc,                         \* position in apply
    discount_percent,
    discount_amount_available,
    discount,
    affected_items,
    max_affected_items,
    affected_lines,
    idx,                        \* position of the for loop in line_tuples
    calls,                      \* calls made on the collaborators, in order
    result,                     \* the amount of the returned BasketDiscount
    \* ---- Benefit / ConditionalOffer / Range instances and save()
    obj,                        \* the model instance in memory (its fields)
    row,                        \* its row in the database: None, or the fields written
    save_outcome,               \* how save() ended for the fields as they are
    \* ---- ConditionalOffer.is_condition_satisfied
    offer_in,                   \* the offer's email_domains, the owner's email, the
                                \* answer of the inherited condition check
    offer_pc,                   \* position in is_condition_satisfied
    email_valid,                \* what is_email_valid returned
    offer_calls,                \* calls made on the inherited check
    offer_result,               \* what is_condition_satisfied returned
    \* ---- Range.contains_product
    range,                      \* the Range whose membership is asked
    remote_answer,              \* what the catalog service answers, per course id
    remote_up,                  \* whether the catalog service can be reached
    cache,                      \* django's cache: a set of [key, response] entries
    ev                          \* the evaluations of contains_product, each with
                                \* its position, product and locals

applyVars == <<apply_in, pc, discount_percent, discount_amount_available, discount,
               affected_items, max_affected_items, affected_lines, idx, calls, result>>

saveVars == <<obj, row, save_outcome>>

offerVars == <<offer_in, offer_pc, email_valid, offer_calls, offer_result>>

containsVars == <<range, remote_answer, remote_up, cache, ev>>

vars == <<applyVars, saveVars, offerVars, containsVars>>

None == <<>>
Some(x) == <<x>>

Min(a, b) == IF a <= b THEN a ELSE b

(***************************************************************************)
(* Python strings, as sequences of characters                              *)
(***************************************************************************)

UpperCase == <<"A", "B", "C", "D", "E", "F", "G", "H", "I", "J", "K", "L", "M",
               "N", "O", "P", "Q", "R", "S", "T", "U", "V", "W", "X", "Y", "Z">>
LowerCase == <<"a", "b", "c", "d", "e", "f", "g", "h", "i", "j", "k", "l", "m",
               "n", "o", "p", "q", "r", "s", "t", "u", "v", "w", "x", "y", "z">>
Digits == {"0", "1", "2", "3", "4", "5", "6", "7", "8", "9"}

Range_(f) == {f[i] : i \in DOMAIN f}

\* str.lower
lower_char(c) ==
    IF \E i \in DOMAIN UpperCase : UpperCase[i] = c
       THEN LowerCase[CHOOSE i \in DOMAIN UpperCase : UpperCase[i] = c]
       ELSE c

lower(s) == [i \in DOMAIN s |-> lower_char(s[i])]

\* sub in s, for two strings
str_contains(s, sub) ==
    \E i \in 0 .. Len(s) - Len(sub) : SubSeq(s, i + 1, i + Len(sub)) = sub

\* s.startswith(c), s.endswith(c) for a character c
startswith(s, c) == Len(s) > 0 /\ s[1] = c
endswith(s, c) == Len(s) > 0 /\ s[Len(s)] = c

\* s.split(sep): the list of the pieces between the separators (one piece,
\* possibly empty, when there is no separator).
RECURSIVE split_from(_, _, _, _)
split_from(s, sep, i, piece) ==
    IF i > Len(s) THEN <<piece>>
    ELSE IF s[i] = sep THEN <<piece>> \o split_from(s, sep, i + 1, <<>>)
    ELSE split_from(s, sep, i + 1, Append(piece, s[i]))

split(s, sep) == split_from(s, sep, 1, <<>>)

\* Truth value of a field that may be None: a string is true when it is not
\* empty, a number when it is not 0, a related object always.
truthy_str(f) == f # None /\ f[1] # <<>>
truthy_int(f) == f # None /\ f[1] # 0
truthy_obj(f) == f # None

\* The string literals of the source and of the inputs.
s_credit == <<"c", "r", "e", "d", "i", "t">>

s_professional == <<"p", "r", "o", "f", "e", "s", "s", "i", "o", "n", "a", "l">>

s_verified == <<"v", "e", "r", "i", "f", "i", "e", "d">>

s_audit == <<"a", "u", "d", "i", "t">>

s_Verified == <<"V", "e", "r", "i", "f", "i", "e", "d">>

s_credit_verified == <<"c", "r", "e", "d", "i", "t", ",", "v", "e", "r", "i", "f", "i", "e", "d">>

s_professional_verified == <<"p", "r", "o", "f", "e", "s", "s", "i", "o", "n", "a", "l", ",", "v", "e", "r", "i", "f", "i", "e", "d">>

s_verified_comma == <<"v", "e", "r", "i", "f", "i", "e", "d", ",">>

s_credit_credit == <<"c", "r", "e", "d", "i", "t", ",", "c", "r", "e", "d", "i", "t">>

s_query == <<"o", "r", "g", ":", "e", "d", "X">>

s_example_com == <<"e", "x", "a", "m", "p", "l", "e", ".", "c", "o", "m">>

s_sub_example_com == <<"s", "u", "b", ".", "e", "x", "a", "m", "p", "l", "e", ".", "c", "o", "m">>

s_other_org == <<"o", "t", "h", "e", "r", ".", "o", "r", "g">>

s_example_com_other_org == <<"e", "x", "a", "m", "p", "l", "e", ".", "c", "o", "m", ",", "o", "t", "h", "e", "r", ".", "o", "r", "g">>

s_example_com_comma == <<"e", "x", "a", "m", "p", "l", "e", ".", "c", "o", "m", ",">>

s_double_hyphen == <<"e", "x", "-", "-", "a", "m", "p", "l", "e", ".", "c", "o", "m">>

s_no_dot == <<"e", "x", "a", "m", "p", "l", "e">>

s_short_tld == <<"e", "x", "a", "m", "p", "l", "e", ".", "c">>

s_digit_tld == <<"e", "x", "a", "m", "p", "l", "e", ".", "c", "0", "m">>

s_leading_hyphen == <<"-", "a", ".", "c", "o", "m">>

s_upper == <<"E", "x", "a", "m", "p", "l", "e", ".", "c", "o", "m">>

s_empty_label == <<"a", ".", ".", "c", "o", "m">>

e_a_example_com == <<"a", "@", "e", "x", "a", "m", "p", "l", "e", ".", "c", "o", "m">>

e_a_sub_example_com == <<"a", "@", "s", "u", "b", ".", "e", "x", "a", "m", "p", "l", "e", ".", "c", "o", "m">>

e_a_other_sub_example_com == <<"a", "@", "o", "t", "h", "e", "r", ".", "s", "u", "b", ".", "e", "x", "a", "m", "p", "l", "e", ".", "c", "o", "m">>

e_a_other_com == <<"a", "@", "o", "t", "h", "e", "r", ".", "c", "o", "m">>

e_a_exampleXcom == <<"a", "@", "e", "x", "a", "m", "p", "l", "e", "X", "c", "o", "m">>

e_a_other_org == <<"a", "@", "o", "t", "h", "e", "r", ".", "o", "r", "g">>

e_b_x_other_org == <<"b", "@", "x", ".", "o", "t", "h", "e", "r", ".", "o", "r", "g">>

e_a_sub1_example_com == <<"a", "@", "s", "u", "b", "1", ".", "e", "x", "a", "m", "p", "l", "e", ".", "c", "o", "m">>

e_no_user == <<"@", "e", "x", "a", "m", "p", "l", "e", ".", "c", "o", "m">>

e_two_ats == <<"a", "@", "b", "@", "e", "x", "a", "m", "p", "l", "e", ".", "c", "o", "m">>

e_a_notexample_com == <<"a", "@", "n", "o", "t", "e", "x", "a", "m", "p", "l", "e", ".", "c", "o", "m">>

e_a_example_com_au == <<"a", "@", "e", "x", "a", "m", "p", "l", "e", ".", "c", "o", "m", ".", "a", "u">>

(***************************************************************************)
(* EnterpriseCustomerUserPercentageBenefit.apply                           *)
(***************************************************************************)

\* Bounds of the allocation's inputs.
MaxLines == 2

Percents == {0, 50, 100, 150}
Prices == {333, 1000, 2000}
Quantities == 0 .. 3
MaxAffectedItemsFields == {None, Some(1), Some(2)}
MaxTotalDiscounts == {None, Some(0), Some(500), Some(1500)}

Lines == [price : Prices, quantity_without_discount : Quantities]

LineTuples == UNION {[1 .. n -> Lines] : n \in 0 .. MaxLines}

ApplyInputs ==
    [linked : BOOLEAN,
     value : Percents,
     discount_percent : {None, Some(50), Some(120)},
     max_total_discount : MaxTotalDiscounts,
     max_affected_items : MaxAffectedItemsFields,
     line_tuples : LineTuples]

\* A slip apply could make: the owner taken for linked whatever the answer.
linked_whatever_the_answer(in) == TRUE

\* is_enterprise_feature_enabled / is_user_linked_to_enterprise_customer:
\* the answer is the runtime switch's, whatever the user and the customer.
is_user_linked_to_enterprise_customer(in) == in.linked

\* Benefit._effective_max_affected_items
effective_max_affected_items(field) ==
    IF field = None \/ field = Some(0) THEN 10000 ELSE field[1]

\* Benefit.round applied to amount = hundredths / 100 cents: whole cents, rounded down.
round(hundredths) == hundredths \div 100

\* A slip the allocation could make: the line's whole quantity, uncapped.
quantity_affected_uncapped(line, max, affected) == line.quantity_without_discount

\* line 108
quantity_affected_of(line, max, affected) ==
    Min(line.quantity_without_discount, max - affected)

\* lines 110-111
line_discount_of(percent, price, quantity) ==
    round(percent * price * quantity)

\* lines 113-114
clamped_discount(line_discount, available) ==
    IF available # None THEN Min(line_discount, available[1]) ELSE line_discount

\* A slip the loop could make: the budget not decremented.
remaining_unchanged(line_discount, available) == available

\* line 115
remaining_after(line_discount, available) ==
    IF available # None THEN Some(available[1] - line_discount) ELSE None

\* lines 86-87: the basket owner is not linked to the enterprise customer.
ApplyNotLinked ==
    /\ pc = "start"
    /\ ~is_user_linked_to_enterprise_customer(apply_in)
    /\ result' = Some(0)
    /\ pc' = "done"
    /\ UNCHANGED <<apply_in, discount_percent, discount_amount_available, discount,
                   affected_items, max_affected_items, affected_lines, idx, calls>>
    /\ UNCHANGED <<saveVars, offerVars, containsVars>>

\* A slip apply could make: the percentage taken as it is given.
unclamped_percent(percent) == percent

\* line 100
clamped_percent(percent) == Min(percent, 100)

\* lines 91-101: everything before the loop.
ApplyBegin ==
    /\ pc = "start"
    /\ is_user_linked_to_enterprise_customer(apply_in)
    /\ discount_percent' =
          clamped_percent(IF apply_in.discount_percent = None
                             THEN apply_in.value ELSE apply_in.discount_percent[1])
    /\ discount_amount_available' = apply_in.max_total_discount
    /\ discount' = 0
    /\ affected_items' = 0
    /\ max_affected_items' = effective_max_affected_items(apply_in.max_affected_items)
    /\ affected_lines' = <<>>
    /\ idx' = 1
    /\ calls' = Append(calls, [op |-> "get_applicable_lines"])
    /\ pc' = "loop"
    /\ UNCHANGED <<apply_in, result>>
    /\ UNCHANGED <<saveVars, offerVars, containsVars>>

\* line 102: the for loop has no line left.
LoopExhausted ==
    /\ pc = "loop"
    /\ idx > Len(apply_in.line_tuples)
    /\ pc' = "after"
    /\ UNCHANGED <<apply_in, discount_percent, discount_amount_available, discount,
                   affected_items, max_affected_items, affected_lines, idx, calls, result>>
    /\ UNCHANGED <<saveVars, offerVars, containsVars>>

\* A slip the loop could make: the line passed over and the loop continued
\* when the item cap is reached.
LoopContinueItems ==
    /\ pc = "loop"
    /\ idx <= Len(apply_in.line_tuples)
    /\ affected_items >= max_affected_items
    /\ idx' = idx + 1
    /\ UNCHANGED <<apply_in, pc, discount_percent, discount_amount_available, discount,
                   affected_items, max_affected_items, affected_lines, calls, result>>
    /\ UNCHANGED <<saveVars, offerVars, containsVars>>

\* lines 103-104
LoopBreakItems ==
    /\ pc = "loop"
    /\ idx <= Len(apply_in.line_tuples)
    /\ affected_items >= max_affected_items
    /\ pc' = "after"
    /\ UNCHANGED <<apply_in, discount_percent, discount_amount_available, discount,
                   affected_items, max_affected_items, affected_lines, idx, calls, result>>
    /\ UNCHANGED <<saveVars, offerVars, containsVars>>

\* lines 105-106
LoopBreakBudget ==
    /\ pc = "loop"
    /\ idx <= Len(apply_in.line_tuples)
    /\ ~(affected_items >= max_affected_items)
    /\ discount_amount_available = Some(0)
    /\ pc' = "after"
    /\ UNCHANGED <<apply_in, discount_percent, discount_amount_available, discount,
                   affected_items, max_affected_items, affected_lines, idx, calls, result>>
    /\ UNCHANGED <<saveVars, offerVars, containsVars>>

\* lines 108-121: one line is discounted.
LoopBody ==
    /\ pc = "loop"
    /\ idx <= Len(apply_in.line_tuples)
    /\ ~(affected_items >= max_affected_items)
    /\ discount_amount_available # Some(0)
    /\ LET line == apply_in.line_tuples[idx]
           quantity_affected ==
               quantity_affected_of(line, max_affected_items, affected_items)
           line_discount ==
               clamped_discount(
                   line_discount_of(discount_percent, line.price, quantity_affected),
                   discount_amount_available)
       IN  /\ discount_amount_available' =
                 remaining_after(line_discount, discount_amount_available)
           /\ calls' = Append(calls, [op |-> "line.discount", line |-> idx,
                                      line_discount |-> line_discount,
                                      quantity_affected |-> quantity_affected])
           /\ affected_lines' = Append(affected_lines,
                                       [line |-> idx, line_discount |-> line_discount,
                                        quantity_affected |-> quantity_affected])
           /\ affected_items' = affected_items + quantity_affected
           /\ discount' = discount + line_discount
    /\ idx' = idx + 1
    /\ UNCHANGED <<apply_in, pc, discount_percent, max_affected_items, result>>
    /\ UNCHANGED <<saveVars, offerVars, containsVars>>

\* A slip the allocation could make: consuming whatever the total.
consumes_always(total) == TRUE

\* A slip the allocation could make: consuming a total of zero too.
consumes_zero_too(total) == total >= 0

\* line 123: the guard of the consume_items call.
consumes(total) == total > 0

\* lines 123-125
ApplyReturn ==
    /\ pc = "after"
    /\ calls' = IF consumes(discount)
                   THEN Append(calls, [op |-> "condition.consume_items",
                                       affected_lines |-> affected_lines])
                   ELSE calls
    /\ result' = Some(discount)
    /\ pc' = "done"
    /\ UNCHANGED <<apply_in, discount_percent, discount_amount_available, discount,
                   affected_items, max_affected_items, affected_lines, idx>>
    /\ UNCHANGED <<saveVars, offerVars, containsVars>>

ApplyNext ==
    \/ ApplyNotLinked
    \/ ApplyBegin
    \/ LoopExhausted
    \/ LoopBreakItems
    \/ LoopBreakBudget
    \/ LoopBody
    \/ ApplyReturn

(***************************************************************************)
(* Benefit, ConditionalOffer, Range: clean() and save()                    *)
(***************************************************************************)

\* Benefit.VALID_BENEFIT_TYPES
VALID_BENEFIT_TYPES == {"PERCENTAGE", "FIXED"}

BenefitTypes == {"PERCENTAGE", "FIXED", "MULTIBUY", "FIXED_PRICE"}

\* Benefit.clean_type
Benefit_clean_type(b) ==
    IF b.type \notin VALID_BENEFIT_TYPES THEN "Unrecognised benefit type" ELSE "ok"

\* Benefit.clean_value: self.value < 0 (None compares below every number)
Benefit_clean_value(b) ==
    IF b.value = None \/ b.value[1] < 0
       THEN "Benefit value may not be a negative number" ELSE "ok"

\* super().clean(): the framework's own validation of the instance, which
\* passes or raises; base_valid tells which for this instance's fields.
super_clean(o) == IF o.base_valid THEN "ok" ELSE "framework validation error"

\* Benefit.clean
Benefit_clean(b) ==
    IF Benefit_clean_type(b) # "ok" THEN Benefit_clean_type(b)
    ELSE IF Benefit_clean_value(b) # "ok" THEN Benefit_clean_value(b)
    ELSE super_clean(b)

\* lines 172-176: the checks on a whole domain
domain_is_invalid(domain) ==
    LET domain_parts == split(domain, ".")
        tld == domain_parts[Len(domain_parts)]
    IN  \/ str_contains(domain, <<"-", "-">>)
        \/ Len(domain_parts) < 2
        \/ Len(tld) < 2
        \/ \E i \in DOMAIN tld : tld[i] = "-" \/ tld[i] \in Digits

\* lines 178-185: the checks on one level of a domain. An ASCII label is its
\* own IDNA encoding; the regular expression is ^([a-z0-9-]+)$.
domain_part_is_invalid(domain_part) ==
    \/ startswith(domain_part, "-")
    \/ endswith(domain_part, "-")
    \/ ~(/\ Len(domain_part) >= 1
         /\ \A i \in DOMAIN domain_part :
               domain_part[i] \in Range_(LowerCase) \cup Digits \cup {"-"})

\* ConditionalOffer.clean_email_domains
clean_email_domains(o) ==
    IF o.email_domains = Some(<<>>)
       THEN "email domains may not be an empty string"
    ELSE IF ~truthy_str(o.email_domains) THEN "ok"
    ELSE LET email_domains_array == split(o.email_domains[1], ",")
         IN  IF email_domains_array[Len(email_domains_array)] = <<>>
                THEN "Trailing comma is not allowed"
             ELSE IF \E i \in DOMAIN email_domains_array :
                        \/ domain_is_invalid(email_domains_array[i])
                        \/ \E part \in Range_(split(email_domains_array[i], ".")) :
                              domain_part_is_invalid(part)
                THEN "Email domain is invalid"
             ELSE "ok"

\* ConditionalOffer.clean_max_global_applications; a number is held with
\* whether it is an int (or long).
clean_max_global_applications(o) ==
    IF o.max_global_applications # None
       /\ (o.max_global_applications[1].n < 1 \/ ~o.max_global_applications[1].is_int)
       THEN "max_global_applications field must be a positive number"
    ELSE "ok"

\* ConditionalOffer.clean
ConditionalOffer_clean(o) ==
    IF clean_email_domains(o) # "ok" THEN clean_email_domains(o)
    ELSE IF clean_max_global_applications(o) # "ok"
       THEN clean_max_global_applications(o)
    ELSE super_clean(o)

\* Range.ALLOWED_SEAT_TYPES
ALLOWED_SEAT_TYPES == {s_credit, s_professional, s_verified}

\* A slip the validation could make: credit accepted beside other seat types.
validate_seat_type_subset_only(course_seat_types) ==
    IF ~(Range_(split(course_seat_types, ",")) \subseteq ALLOWED_SEAT_TYPES)
       THEN "Not allowed course seat types" ELSE "ok"

\* validate_credit_seat_type, for a string
validate_credit_seat_type(course_seat_types) ==
    LET course_seat_types_list == split(course_seat_types, ",")
    IN  IF Len(course_seat_types_list) > 1 /\ s_credit \in Range_(course_seat_types_list)
           THEN "Credit seat type cannot be paired with other seat types"
        ELSE IF ~(Range_(course_seat_types_list) \subseteq ALLOWED_SEAT_TYPES)
           THEN "Not allowed course seat types"
        ELSE "ok"

\* A slip the validation could make: the catalog's exclusion of the dynamic
\* fields left out.
Range_clean_no_catalog_rule(r) ==
    LET catalog_query == truthy_str(r.catalog_query)
        course_catalog == truthy_int(r.course_catalog)
        course_seat_types == truthy_str(r.course_seat_types)
    IN  IF catalog_query /\ course_catalog THEN "Either catalog_query or course_catalog"
        ELSE IF (catalog_query \/ course_catalog) /\ ~course_seat_types
           THEN "Either catalog_query or course_catalog"
        ELSE IF course_seat_types /\ ~(catalog_query \/ course_catalog)
           THEN "Either catalog_query or course_catalog"
        ELSE IF course_seat_types THEN validate_credit_seat_type(r.course_seat_types[1])
        ELSE "ok"

\* Range.clean
Range_clean(r) ==
    LET catalog == truthy_obj(r.catalog)
        catalog_query == truthy_str(r.catalog_query)
        course_catalog == truthy_int(r.course_catalog)
        course_seat_types == truthy_str(r.course_seat_types)
    IN  IF catalog /\ (course_catalog \/ catalog_query \/ course_seat_types)
           THEN "Catalog and dynamic catalog fields may not be set in the same range"
        ELSE IF catalog_query /\ course_catalog
           THEN "Either catalog_query or course_catalog"
        ELSE IF (catalog_query \/ course_catalog) /\ ~course_seat_types
           THEN "Either catalog_query or course_catalog"
        ELSE IF course_seat_types /\ ~(catalog_query \/ course_catalog)
           THEN "Either catalog_query or course_catalog"
        ELSE IF course_seat_types THEN validate_credit_seat_type(r.course_seat_types[1])
        ELSE "ok"

\* self.clean() of the instance's class
clean(o) ==
    CASE o.kind = "Benefit" -> Benefit_clean(o)
      [] o.kind = "ConditionalOffer" -> ConditionalOffer_clean(o)
      [] o.kind = "Range" -> Range_clean(o)

\* The instances the model builds.
Benefits ==
    [kind : {"Benefit"}, type : BenefitTypes,
     value : {None, Some(-1), Some(0), Some(50)}, base_valid : BOOLEAN]

EmailDomainsValues ==
    {None, Some(<<>>), Some(s_example_com), Some(s_sub_example_com),
     Some(s_example_com_other_org), Some(s_example_com_comma), Some(s_double_hyphen),
     Some(s_no_dot), Some(s_short_tld), Some(s_digit_tld), Some(s_leading_hyphen),
     Some(s_upper), Some(s_empty_label)}

MaxGlobalApplicationsValues ==
    {None} \cup {Some([n |-> n, is_int |-> TRUE]) : n \in {-1, 0, 1, 5}}
           \cup {Some([n |-> 2, is_int |-> FALSE])}

ConditionalOffers ==
    [kind : {"ConditionalOffer"}, email_domains : EmailDomainsValues,
     max_global_applications : MaxGlobalApplicationsValues, base_valid : BOOLEAN]

\* A catalog is the set of the ids of the products of its stock records.
CatalogValues == {None, Some({1})}
CatalogQueryValues == {None, Some(<<>>), Some(s_query)}
CourseCatalogValues == {None, Some(0), Some(7)}
CourseSeatTypesValues ==
    {None, Some(<<>>), Some(s_verified), Some(s_credit), Some(s_professional_verified),
     Some(s_credit_verified), Some(s_credit_credit), Some(s_verified_comma),
     Some(s_audit), Some(s_Verified)}

Ranges ==
    [kind : {"Range"}, catalog : CatalogValues, catalog_query : CatalogQueryValues,
     course_catalog : CourseCatalogValues, course_seat_types : CourseSeatTypesValues]

Instances == Benefits \cup ConditionalOffers \cup Ranges

\* One field of the instance is assigned (a form, the API, the shell).
Assign ==
    /\ \E o \in Instances :
          /\ o.kind = obj.kind
          /\ Cardinality({f \in DOMAIN obj : o[f] # obj[f]}) = 1
          /\ obj' = o
    /\ save_outcome' = "none"
    /\ UNCHANGED row
    /\ UNCHANGED <<applyVars, offerVars, containsVars>>

\* A slip save() could make: writing the row before validating.
persisted_unvalidated(o, old) == Some(o)

\* The row after save(): super().save() is reached only when clean() has not raised.
persisted(o, old) == IF clean(o) = "ok" THEN Some(o) ELSE old

\* Benefit.save, ConditionalOffer.save, Range.save
Save ==
    /\ row' = persisted(obj, row)
    /\ save_outcome' = IF clean(obj) = "ok" THEN "saved" ELSE "ValidationError"
    /\ UNCHANGED obj
    /\ UNCHANGED <<applyVars, offerVars, containsVars>>

SaveNext ==
    \/ Assign
    \/ Save

(***************************************************************************)
(* ConditionalOffer.is_email_valid, is_condition_satisfied                 *)
(***************************************************************************)

\* \w of a regular expression
is_word_char(c) ==
    c \in Range_(LowerCase) \cup Range_(UpperCase) \cup Digits \cup {"_"}

\* (?P<subdomain>\w+\.)* matched against the whole of s
subdomains_match(s) ==
    LET pieces == split(s, ".")
    IN  /\ pieces[Len(pieces)] = <<>>
        /\ \A i \in 1 .. Len(pieces) - 1 :
              /\ Len(pieces[i]) >= 1
              /\ \A j \in DOMAIN pieces[i] : is_word_char(pieces[i][j])

\* The domain, put in the pattern as it is, matched against the whole of s:
\* its dots are the regular expression's "any character".
domain_pattern_matches(domain, s) ==
    /\ Len(s) = Len(domain)
    /\ \A i \in DOMAIN domain : domain[i] = "." \/ domain[i] = s[i]

\* lines 228-230: re.match of (?P<username>.+)@(?P<subdomain>\w+\.)*{domain}
\* that covers the whole email
email_matches(domain, email) ==
    \E at \in 2 .. Len(email) :
        /\ email[at] = "@"
        /\ \E k \in at .. Len(email) :
              /\ subdomains_match(SubSeq(email, at + 1, k))
              /\ domain_pattern_matches(domain, SubSeq(email, k + 1, Len(email)))

\* ConditionalOffer.is_email_valid
is_email_valid(email_domains, email) ==
    IF truthy_str(email_domains)
       THEN \E domain \in Range_(split(email_domains[1], ",")) :
               email_matches(domain, email)
       ELSE TRUE

Emails ==
    {e_a_example_com, e_a_sub_example_com, e_a_other_sub_example_com, e_a_other_com,
     e_a_exampleXcom, e_a_other_org, e_b_x_other_org, e_a_sub1_example_com, e_no_user,
     e_two_ats, e_a_notexample_com, e_a_example_com_au}

\* The offers evaluated are saved ones, or new ones with no domain.
OfferInputs ==
    [email_domains : {d \in EmailDomainsValues :
                         d = Some(<<>>) \/ clean_email_domains([email_domains |-> d]) = "ok"},
     email : Emails,
     base_satisfied : BOOLEAN]

\* line 240: is_email_valid(basket.owner.email) is evaluated.
CheckEmail ==
    /\ offer_pc = "start"
    /\ email_valid' = Some(is_email_valid(offer_in.email_domains, offer_in.email))
    /\ offer_pc' = "checked"
    /\ UNCHANGED <<offer_in, offer_calls, offer_result>>
    /\ UNCHANGED <<applyVars, saveVars, containsVars>>

\* A slip is_condition_satisfied could make: the inherited check run before
\* the email's refusal.
EmailRefusedAfterInherited ==
    /\ offer_pc = "checked"
    /\ email_valid = Some(FALSE)
    /\ offer_calls' = Append(offer_calls, "super.is_condition_satisfied")
    /\ offer_result' = Some(FALSE)
    /\ offer_pc' = "done"
    /\ UNCHANGED <<offer_in, email_valid>>
    /\ UNCHANGED <<applyVars, saveVars, containsVars>>

\* lines 240-241: the email is not valid.
EmailRefused ==
    /\ offer_pc = "checked"
    /\ email_valid = Some(FALSE)
    /\ offer_result' = Some(FALSE)
    /\ offer_pc' = "done"
    /\ UNCHANGED <<offer_in, email_valid, offer_calls>>
    /\ UNCHANGED <<applyVars, saveVars, containsVars>>

\* line 242: the inherited check decides.
InheritedCondition ==
    /\ offer_pc = "checked"
    /\ email_valid = Some(TRUE)
    /\ offer_calls' = Append(offer_calls, "super.is_condition_satisfied")
    /\ offer_result' = Some(offer_in.base_satisfied)
    /\ offer_pc' = "done"
    /\ UNCHANGED <<offer_in, email_valid>>
    /\ UNCHANGED <<applyVars, saveVars, containsVars>>

OfferNext ==
    \/ CheckEmail
    \/ EmailRefused
    \/ InheritedCondition

(***************************************************************************)
(* Range.contains_product, catalog_contains_product, run_catalog_query     *)
(***************************************************************************)

\* The number of evaluations of contains_product in one run.
NumEvals == 2

Evals == 1 .. NumEvals

CourseIds == {"course-v1:A", "course-v1:B"}

\* Seats: the product's id, its course, its certificate type and whether the
\* inherited AbstractRange.contains_product holds it to be in the range.
Products ==
    {[id |-> 1, course_id |-> "course-v1:A", certificate_type |-> s_verified,
      inherited |-> FALSE],
     [id |-> 2, course_id |-> "course-v1:B", certificate_type |-> s_Verified,
      inherited |-> FALSE],
     [id |-> 3, course_id |-> "course-v1:A", certificate_type |-> s_verified,
      inherited |-> TRUE],
     [id |-> 4, course_id |-> "course-v1:B", certificate_type |-> s_audit,
      inherited |-> TRUE],
     [id |-> 5, course_id |-> "course-v1:A", certificate_type |-> <<>>,
      inherited |-> FALSE],
     [id |-> 6, course_id |-> "course-v1:B", certificate_type |-> s_professional,
      inherited |-> FALSE]}

NoProduct ==
    [id |-> 0, course_id |-> "", certificate_type |-> <<>>, inherited |-> FALSE]

\* The ranges whose membership is asked are saved ones.
ContainsRanges ==
    {r \in Ranges :
        /\ Range_clean(r) = "ok"
        /\ r.catalog_query \in {None, Some(s_query)}
        /\ r.course_catalog \in {None, Some(7)}
        /\ r.course_catalog # None => r.course_seat_types = Some(s_verified)
        /\ r.catalog_query # None =>
              r.course_seat_types = Some(s_professional_verified)}

\* What the catalog service holds: each course in the catalog or not.
RemoteAnswers ==
    {[c \in CourseIds |-> c = "course-v1:A"], [c \in CourseIds |-> c = "course-v1:B"],
     [c \in CourseIds |-> FALSE]}

\* get_cache_key: a key made of the site, the partner, the resource and the
\* identifiers of the query.
get_cache_key(resource, course_id, ident) ==
    [site_domain |-> "example.org", partner_code |-> "edX", resource |-> resource,
     course_id |-> course_id, ident |-> ident]

\* lines 322-328
run_catalog_query_key(r, product) ==
    get_cache_key("course_runs.contains", product.course_id, r.catalog_query)

\* lines 350-356
catalog_contains_product_key(r, product) ==
    get_cache_key("catalogs.contains", product.course_id, r.course_catalog)

\* cache.get: the entry's response, None when there is none
cache_get(key) ==
    IF \E e \in cache : e.key = key
       THEN Some((CHOOSE e \in cache : e.key = key).response)
       ELSE None

\* settings.COURSES_API_CACHE_TIMEOUT, the configured lifetime of an entry
COURSES_API_CACHE_TIMEOUT == "settings.COURSES_API_CACHE_TIMEOUT"

\* A slip the lookup could make: the response is not stored.
cache_set_nothing(key, response, timeout) == cache

\* cache.set
cache_set(key, response, timeout) ==
    {e \in cache : e.key # key}
        \cup {[key |-> key, response |-> response, timeout |-> timeout]}

\* The branch contains_product takes (lines 376, 384, 391, 396).
branch(r) ==
    IF truthy_int(r.course_catalog) /\ truthy_str(r.course_seat_types)
       THEN "course_catalog"
    ELSE IF truthy_str(r.catalog_query) /\ truthy_str(r.course_seat_types)
       THEN "catalog_query"
    ELSE IF truthy_obj(r.catalog) THEN "catalog"
    ELSE "default"

\* lines 378, 385: product.attr.certificate_type.lower() in self.course_seat_types,
\* for the string course_seat_types
seat_type_gate(r, product) ==
    str_contains(r.course_seat_types[1], lower(product.certificate_type))

\* The cache key of the product's lookup, by branch.
lookup_key(r, product) ==
    IF branch(r) = "course_catalog"
       THEN catalog_contains_product_key(r, product)
       ELSE run_catalog_query_key(r, product)

\* A slip the lookup could make: the catalog service's answer inverted.
remote_get_inverted(r, product) ==
    IF branch(r) = "course_catalog"
       THEN [courses |-> (product.course_id :> ~remote_answer[product.course_id])]
       ELSE [course_runs |-> (product.course_id :> ~remote_answer[product.course_id])]

\* The catalog service's response: lines 362-364 (catalogs.contains) and
\* 332-336 (course_runs.contains).
remote_get(r, product) ==
    IF branch(r) = "course_catalog"
       THEN [courses |-> (product.course_id :> remote_answer[product.course_id])]
       ELSE [course_runs |-> (product.course_id :> remote_answer[product.course_id])]

\* lines 382, 389: the response's entry for the product's course
response_entry(r, product, response) ==
    IF branch(r) = "course_catalog"
       THEN response.courses[product.course_id]
       ELSE response.course_runs[product.course_id]

\* A slip the membership could make: both the catalog and the inherited
\* check required.
membership_both(remote_says, inherited) == remote_says /\ inherited

\* lines 382-383, 389-390: the catalog's answer or the inherited check
membership(remote_says, inherited) == remote_says \/ inherited

\* A slip the lookup could make: a failure taken for "not in the catalog".
lookup_failure_as_non_member(e) ==
    [e EXCEPT !.pc = "done", !.result = Some(e.product.inherited)]

\* lines 338-339, 366-367: the failure is raised again as an Exception.
lookup_failure(e) == [e EXCEPT !.pc = "raised"]

IdleEval ==
    [pc |-> "idle", product |-> NoProduct, response |-> None, result |-> None,
     cache_gets |-> 0, remote_calls |-> 0, remote_failed |-> FALSE]

\* lines 376-378, 384-385, 396: the range is not dynamic and has no catalog,
\* or the product's seat type does not pass the gate.
ContainsInherited(p, product) ==
    /\ ev[p].pc = "idle"
    /\ \/ branch(range) = "default"
       \/ /\ branch(range) \in {"course_catalog", "catalog_query"}
          /\ ~seat_type_gate(range, product)
    /\ ev' = [ev EXCEPT ![p] = [@ EXCEPT !.pc = "done", !.product = product,
                                         !.result = Some(product.inherited)]]
    /\ UNCHANGED <<range, remote_answer, remote_up, cache>>
    /\ UNCHANGED <<applyVars, saveVars, offerVars>>

\* lines 391-395: the catalog's stock records, or the inherited check.
ContainsCatalog(p, product) ==
    /\ ev[p].pc = "idle"
    /\ branch(range) = "catalog"
    /\ ev' = [ev EXCEPT ![p] =
                 [@ EXCEPT !.pc = "done", !.product = product,
                           !.result = Some(\/ product.id \in range.catalog[1]
                                           \/ product.inherited)]]
    /\ UNCHANGED <<range, remote_answer, remote_up, cache>>
    /\ UNCHANGED <<applyVars, saveVars, offerVars>>

\* lines 329-330, 357-358 then 341, 369, 382-383, 389-390: the cache holds a
\* response for the key.
CacheHit(p, product) ==
    /\ ev[p].pc = "idle"
    /\ branch(range) \in {"course_catalog", "catalog_query"}
    /\ seat_type_gate(range, product)
    /\ cache_get(lookup_key(range, product)) # None
    /\ LET response == cache_get(lookup_key(range, product))[1]
       IN  ev' = [ev EXCEPT ![p] =
                     [@ EXCEPT !.pc = "done", !.product = product,
                               !.response = Some(response), !.cache_gets = 1,
                               !.result = Some(membership(
                                   response_entry(range, product, response),
                                   product.inherited))]]
    /\ UNCHANGED <<range, remote_answer, remote_up, cache>>
    /\ UNCHANGED <<applyVars, saveVars, offerVars>>

\* lines 329-330, 357-358: the cache holds nothing for the key.
CacheMiss(p, product) ==
    /\ ev[p].pc = "idle"
    /\ branch(range) \in {"course_catalog", "catalog_query"}
    /\ seat_type_gate(range, product)
    /\ cache_get(lookup_key(range, product)) = None
    /\ ev' = [ev EXCEPT ![p] = [@ EXCEPT !.pc = "remote", !.product = product,
                                         !.cache_gets = 1]]
    /\ UNCHANGED <<range, remote_answer, remote_up, cache>>
    /\ UNCHANGED <<applyVars, saveVars, offerVars>>

\* lines 332-336, 362-364: the catalog service answers.
RemoteResponds(p) ==
    /\ ev[p].pc = "remote"
    /\ remote_up
    /\ ev' = [ev EXCEPT ![p] =
                 [@ EXCEPT !.pc = "fetched",
                           !.response = Some(remote_get(range, ev[p].product)),
                           !.remote_calls = @ + 1]]
    /\ UNCHANGED <<range, remote_answer, remote_up, cache>>
    /\ UNCHANGED <<applyVars, saveVars, offerVars>>

\* A slip the lookup could make: the failure stored in the cache as "not in
\* the catalog".
RemoteRaisesAndCaches(p) ==
    /\ ev[p].pc = "remote"
    /\ ~remote_up
    /\ ev' = [ev EXCEPT ![p] =
                 lookup_failure([@ EXCEPT !.remote_calls = @ + 1,
                                          !.remote_failed = TRUE])]
    /\ cache' = cache_set(lookup_key(range, ev[p].product),
                           IF branch(range) = "course_catalog"
                              THEN [courses |-> (ev[p].product.course_id :> FALSE)]
                              ELSE [course_runs |-> (ev[p].product.course_id :> FALSE)],
                           COURSES_API_CACHE_TIMEOUT)
    /\ UNCHANGED <<range, remote_answer, remote_up>>
    /\ UNCHANGED <<applyVars, saveVars, offerVars>>

\* lines 338-339, 366-367: the call fails (connection error, timeout, HTTP error).
RemoteRaises(p) ==
    /\ ev[p].pc = "remote"
    /\ ~remote_up
    /\ ev' = [ev EXCEPT ![p] =
                 lookup_failure([@ EXCEPT !.remote_calls = @ + 1,
                                          !.remote_failed = TRUE])]
    /\ UNCHANGED <<range, remote_answer, remote_up, cache>>
    /\ UNCHANGED <<applyVars, saveVars, offerVars>>

\* lines 337, 365 then 341, 369, 382-383, 389-390: the response is cached and
\* the membership returned.
CacheSet(p) ==
    /\ ev[p].pc = "fetched"
    /\ cache' = cache_set(lookup_key(range, ev[p].product), ev[p].response[1],
                           COURSES_API_CACHE_TIMEOUT)
    /\ ev' = [ev EXCEPT ![p] =
                 [@ EXCEPT !.pc = "done",
                           !.result = Some(membership(
                               response_entry(range, ev[p].product, ev[p].response[1]),
                               ev[p].product.inherited))]]
    /\ UNCHANGED <<range, remote_answer, remote_up>>
    /\ UNCHANGED <<applyVars, saveVars, offerVars>>

\* An entry of the cache reaches its timeout (settings.COURSES_API_CACHE_TIMEOUT).
Expire ==
    /\ \E e \in cache : cache' = cache \ {e}
    /\ UNCHANGED <<range, remote_answer, remote_up, ev>>
    /\ UNCHANGED <<applyVars, saveVars, offerVars>>

\* The catalog service becomes unreachable.
RemoteGoesDown ==
    /\ remote_up
    /\ remote_up' = FALSE
    /\ UNCHANGED <<range, remote_answer, cache, ev>>
    /\ UNCHANGED <<applyVars, saveVars, offerVars>>

\* The catalog service is reachable again.
RemoteComesBack ==
    /\ ~remote_up
    /\ remote_up' = TRUE
    /\ UNCHANGED <<range, remote_answer, cache, ev>>
    /\ UNCHANGED <<applyVars, saveVars, offerVars>>

ContainsNext ==
    \/ \E p \in Evals, product \in Products : ContainsInherited(p, product)
    \/ \E p \in Evals, product \in Products : ContainsCatalog(p, product)
    \/ \E p \in Evals, product \in Products : CacheHit(p, product)
    \/ \E p \in Evals, product \in Products : CacheMiss(p, product)
    \/ \E p \in Evals : RemoteResponds(p)
    \/ \E p \in Evals : RemoteRaises(p)
    \/ \E p \in Evals : CacheSet(p)
    \/ Expire
    \/ RemoteGoesDown
    \/ RemoteComesBack

(***************************************************************************)
(* Specifications: one per operation, the state of the others at rest      *)
(***************************************************************************)

\* The arguments of an apply that is not running.
NoApply ==
    [linked |-> FALSE, value |-> 0, discount_percent |-> None,
     max_total_discount |-> None, max_affected_items |-> None, line_tuples |-> <<>>]

\* An offer that is not being evaluated.
NoOffer == [email_domains |-> None, email |-> <<>>, base_satisfied |-> FALSE]

\* A new Range with no field set.
EmptyRange ==
    [kind |-> "Range", catalog |-> None, catalog_query |-> None,
     course_catalog |-> None, course_seat_types |-> None]

\* apply is called with any inputs.
ApplyInit ==
    /\ apply_in \in ApplyInputs
    /\ pc = "start"
    /\ discount_percent = 0
    /\ discount_amount_available = None
    /\ discount = 0
    /\ affected_items = 0
    /\ max_affected_items = 0
    /\ affected_lines = <<>>
    /\ idx = 1
    /\ calls = <<>>
    /\ result = None
    /\ obj = EmptyRange
    /\ row = None
    /\ save_outcome = "none"
    /\ offer_in = NoOffer
    /\ offer_pc = "idle"
    /\ email_valid = None
    /\ offer_calls = <<>>
    /\ offer_result = None
    /\ range = EmptyRange
    /\ remote_answer = [c \in CourseIds |-> FALSE]
    /\ remote_up = TRUE
    /\ cache = {}
    /\ ev = [p \in Evals |-> IdleEval]

SpecApply == ApplyInit /\ [][ApplyNext]_vars

\* An instance of one of the three models is built, not yet saved.
SaveInit ==
    /\ apply_in = NoApply
    /\ pc = "idle"
    /\ discount_percent = 0
    /\ discount_amount_available = None
    /\ discount = 0
    /\ affected_items = 0
    /\ max_affected_items = 0
    /\ affected_lines = <<>>
    /\ idx = 1
    /\ calls = <<>>
    /\ result = None
    /\ obj \in Instances
    /\ row = None
    /\ save_outcome = "none"
    /\ offer_in = NoOffer
    /\ offer_pc = "idle"
    /\ email_valid = None
    /\ offer_calls = <<>>
    /\ offer_result = None
    /\ range = EmptyRange
    /\ remote_answer = [c \in CourseIds |-> FALSE]
    /\ remote_up = TRUE
    /\ cache = {}
    /\ ev = [p \in Evals |-> IdleEval]

SpecSave == SaveInit /\ [][SaveNext]_vars

\* is_condition_satisfied is called on an offer, for a basket's owner.
OfferInit ==
    /\ apply_in = NoApply
    /\ pc = "idle"
    /\ discount_percent = 0
    /\ discount_amount_available = None
    /\ discount = 0
    /\ affected_items = 0
    /\ max_affected_items = 0
    /\ affected_lines = <<>>
    /\ idx = 1
    /\ calls = <<>>
    /\ result = None
    /\ obj = EmptyRange
    /\ row = None
    /\ save_outcome = "none"
    /\ offer_in \in OfferInputs
    /\ offer_pc = "start"
    /\ email_valid = None
    /\ offer_calls = <<>>
    /\ offer_result = None
    /\ range = EmptyRange
    /\ remote_answer = [c \in CourseIds |-> FALSE]
    /\ remote_up = TRUE
    /\ cache = {}
    /\ ev = [p \in Evals |-> IdleEval]

SpecOffer == OfferInit /\ [][OfferNext]_vars

\* Products are about to be tested against a saved range; the cache is empty.
ContainsInit ==
    /\ apply_in = NoApply
    /\ pc = "idle"
    /\ discount_percent = 0
    /\ discount_amount_available = None
    /\ discount = 0
    /\ affected_items = 0
    /\ max_affected_items = 0
    /\ affected_lines = <<>>
    /\ idx = 1
    /\ calls = <<>>
    /\ result = None
    /\ obj = EmptyRange
    /\ row = None
    /\ save_outcome = "none"
    /\ offer_in = NoOffer
    /\ offer_pc = "idle"
    /\ email_valid = None
    /\ offer_calls = <<>>
    /\ offer_result = None
    /\ range \in ContainsRanges
    /\ remote_answer \in RemoteAnswers
    /\ remote_up \in BOOLEAN
    /\ cache = {}
    /\ ev = [p \in Evals |-> IdleEval]

SpecContains == ContainsInit /\ [][ContainsNext]_vars

(***************************************************************************)
(* Properties of apply                                                     *)
(***************************************************************************)

RECURSIVE SumQuantity(_)
SumQuantity(s) ==
    IF s = <<>> THEN 0 ELSE s[1].quantity_affected + SumQuantity(Tail(s))

RECURSIVE SumDiscount(_)
SumDiscount(s) ==
    IF s = <<>> THEN 0 ELSE s[1].line_discount + SumDiscount(Tail(s))

ConsumeCalls == {i \in 1 .. Len(calls) : calls[i].op = "condition.consume_items"}
DiscountCalls == {i \in 1 .. Len(calls) : calls[i].op = "line.discount"}

\* C1: after every loop iteration and at return, the units affected over all
\* affected lines are at most the effective max_affected_items and, when
\* max_total_discount is given, the accumulated discount is at most it.
C1_CapsRespected ==
    pc \in {"loop", "after", "done"} /\ apply_in.linked =>
        /\ SumQuantity(affected_lines)
               <= effective_max_affected_items(apply_in.max_affected_items)
        /\ apply_in.max_total_discount # None =>
               /\ discount <= apply_in.max_total_discount[1]
               /\ SumDiscount(affected_lines) <= apply_in.max_total_discount[1]
        /\ pc = "done" => result = Some(SumDiscount(affected_lines))

\* Both caps bite in one run: the second line is cut to the units left and
\* its discount to the budget left.
C1_Witness ==
    /\ pc = "done"
    /\ Len(affected_lines) = 2
    /\ SumQuantity(affected_lines) = 2
    /\ apply_in.max_affected_items = Some(2)
    /\ apply_in.line_tuples[2].quantity_without_discount = 3
    /\ apply_in.max_total_discount = Some(500)
    /\ result = Some(500)

\* C7: consume_items is called exactly once when the accumulated discount is
\* greater than 0 and not at all otherwise, only once the loop is over, so
\* after the last line.discount call.
C7_ConsumeOnceAfterLoop ==
    /\ \A i \in ConsumeCalls : i = Len(calls) /\ pc = "done"
    /\ pc = "done" /\ apply_in.linked =>
           Cardinality(ConsumeCalls) = IF discount > 0 THEN 1 ELSE 0

C7_Witness ==
    /\ pc = "done"
    /\ Cardinality(DiscountCalls) = 2
    /\ Cardinality(ConsumeCalls) = 1
    /\ calls[4].op = "condition.consume_items"
    /\ Len(calls[4].affected_lines) = 2

\* C8 as stated: with no applicable line, or with percent = 0, the total is 0,
\* the affected-lines sequence is empty and consume_items is not called.
C8_Original ==
    pc = "done" /\ apply_in.linked
       /\ (apply_in.line_tuples = <<>> \/ discount_percent = 0) =>
        /\ result = Some(0)
        /\ affected_lines = <<>>
        /\ ConsumeCalls = {}

\* C8 amended: the total is 0 and consume_items is not called in both cases;
\* the affected-lines sequence is empty when there is no line, while with
\* percent = 0 every line the loop reaches is still discounted by 0 and
\* recorded.
C8_ZeroDiscount ==
    pc = "done" /\ apply_in.linked
       /\ (apply_in.line_tuples = <<>> \/ discount_percent = 0) =>
        /\ result = Some(0)
        /\ ConsumeCalls = {}
        /\ apply_in.line_tuples = <<>> => affected_lines = <<>> /\ DiscountCalls = {}
        /\ \A i \in 1 .. Len(affected_lines) : affected_lines[i].line_discount = 0
        /\ Len(affected_lines) = Cardinality(DiscountCalls)

C8_Witness ==
    /\ pc = "done"
    /\ discount_percent = 0
    /\ Len(affected_lines) = 2
    /\ affected_lines[1].quantity_affected > 0
    /\ result = Some(0)
    /\ Len(calls) = 3

(***************************************************************************)
(* Properties of clean() and save()                                        *)
(***************************************************************************)

\* C3: save() validates before it persists, on every call: every row in the
\* database passed clean() with the field values written, and a save() whose
\* clean() raises leaves the database as it was.
C3_ValidatedBeforePersisted ==
    /\ [](row # None => clean(row[1]) = "ok")
    /\ [][obj' = obj /\ clean(obj) # "ok" =>
              row' = row /\ save_outcome' = "ValidationError"]_vars

\* An update with invalid fields was refused after a first save: the row
\* still holds the fields that passed.
C3_Witness ==
    /\ row # None
    /\ save_outcome = "ValidationError"
    /\ obj # row[1]
    /\ obj.kind = "ConditionalOffer"
    /\ obj.email_domains = Some(s_example_com_comma)

\* The four modes of a Range, for a given reading of "the field is set".
ExactlyOneMode(catalog, catalog_query, course_catalog, course_seat_types) ==
    \/ catalog /\ ~catalog_query /\ ~course_catalog /\ ~course_seat_types
    \/ catalog_query /\ course_seat_types /\ ~catalog /\ ~course_catalog
    \/ course_catalog /\ course_seat_types /\ ~catalog /\ ~catalog_query
    \/ ~catalog /\ ~catalog_query /\ ~course_catalog /\ ~course_seat_types

\* C4 as stated: Range.clean accepts only the four modes, a field being set
\* when it holds any value (any string, any non-negative id).
C4_Original ==
    obj.kind = "Range" /\ save_outcome = "saved" =>
        ExactlyOneMode(obj.catalog # None, obj.catalog_query # None,
                       obj.course_catalog # None, obj.course_seat_types # None)

\* C4 amended: Range.clean accepts only the four modes, and raises for every
\* other combination, a field being set when its value is true in Python: a
\* catalog, a non-empty catalog_query, a course_catalog other than 0, a
\* non-empty course_seat_types.
C4_ModesExclusive ==
    obj.kind = "Range" /\ save_outcome # "none" =>
        /\ save_outcome = "saved" =>
              ExactlyOneMode(truthy_obj(obj.catalog), truthy_str(obj.catalog_query),
                             truthy_int(obj.course_catalog),
                             truthy_str(obj.course_seat_types))
        /\ truthy_obj(obj.catalog) /\ truthy_int(obj.course_catalog) =>
              save_outcome = "ValidationError"
        /\ truthy_str(obj.catalog_query) /\ truthy_int(obj.course_catalog) =>
              save_outcome = "ValidationError"
        /\ truthy_str(obj.catalog_query) /\ ~truthy_str(obj.course_seat_types) =>
              save_outcome = "ValidationError"

\* A catalog together with a course_catalog is refused, after a range in the
\* catalog_query mode was accepted.
C4_Witness ==
    /\ obj.kind = "Range"
    /\ save_outcome = "ValidationError"
    /\ obj.catalog # None /\ obj.course_catalog = Some(7)
    /\ obj.catalog_query = None /\ obj.course_seat_types = None
    /\ row # None
    /\ row[1].catalog_query = Some(s_query)
    /\ row[1].course_seat_types = Some(s_verified)

\* A comma-separated list whose every entry is an allowed seat type, credit
\* only on its own.
SeatTypesWellFormed(course_seat_types) ==
    LET entries == split(course_seat_types, ",")
    IN  /\ Len(entries) >= 1
        /\ \A i \in DOMAIN entries :
              /\ entries[i] \in {s_credit, s_professional, s_verified}
              /\ entries[i] = s_credit => Len(entries) = 1

\* C5: a Range whose course_seat_types is set is accepted only if the value
\* is a non-empty comma-separated list of credit, professional, verified
\* with credit on its own; every other value raises a validation error.
C5_SeatTypesValidated ==
    obj.kind = "Range" /\ truthy_str(obj.course_seat_types) /\ save_outcome # "none" =>
        /\ save_outcome = "saved" => SeatTypesWellFormed(obj.course_seat_types[1])
        /\ ~SeatTypesWellFormed(obj.course_seat_types[1]) =>
              save_outcome = "ValidationError"

\* "credit,verified" is refused in a range that is otherwise in the
\* course_catalog mode.
C5_Witness ==
    /\ obj.kind = "Range"
    /\ obj.course_seat_types = Some(s_credit_verified)
    /\ obj.course_catalog = Some(7)
    /\ obj.catalog = None /\ ~truthy_str(obj.catalog_query)
    /\ save_outcome = "ValidationError"

(***************************************************************************)
(* Properties of is_email_valid                                            *)
(***************************************************************************)

\* C6: is_email_valid on the documented cases: "example.com" admits
\* a@example.com and a@sub.example.com; "sub.example.com" admits
\* a@sub.example.com and neither a@example.com nor a@other.sub.example.com;
\* no email_domains admits every email; several domains admit an email iff
\* one of them does.
C6_EmailDomainExamples ==
    email_valid # None =>
        LET domains == offer_in.email_domains
            email == offer_in.email
            valid == email_valid[1]
        IN  /\ domains = Some(s_example_com)
                  /\ email \in {e_a_example_com, e_a_sub_example_com} => valid
            /\ domains = Some(s_sub_example_com) /\ email = e_a_sub_example_com => valid
            /\ domains = Some(s_sub_example_com)
                  /\ email \in {e_a_example_com, e_a_other_sub_example_com} => ~valid
            /\ ~truthy_str(domains) => valid
            /\ domains = Some(s_example_com_other_org) =>
                  valid = (\/ is_email_valid(Some(s_example_com), email)
                           \/ is_email_valid(Some(s_other_org), email))

(***************************************************************************)
(* Properties of contains_product                                          *)
(***************************************************************************)

\* The range is in one of the two dynamic modes.
DynamicMode(r) ==
    /\ truthy_str(r.course_seat_types)
    /\ ~truthy_obj(r.catalog)
    /\ truthy_int(r.course_catalog) # truthy_str(r.catalog_query)

CatalogOnlyMode(r) ==
    /\ truthy_obj(r.catalog)
    /\ ~truthy_int(r.course_catalog) /\ ~truthy_str(r.catalog_query)
    /\ ~truthy_str(r.course_seat_types)

NoMode(r) ==
    /\ ~truthy_obj(r.catalog)
    /\ ~truthy_int(r.course_catalog) /\ ~truthy_str(r.catalog_query)
    /\ ~truthy_str(r.course_seat_types)

\* The product's seat type, lower-cased, is one of the comma-separated
\* entries of course_seat_types.
SeatTypeIsAnEntry(r, product) ==
    lower(product.certificate_type) \in Range_(split(r.course_seat_types[1], ","))

\* C2: in both dynamic modes, when the gate passes, the cache misses and the
\* remote lookup fails, contains_product raises: it returns no boolean, not
\* false and not the inherited membership.
C2_LookupFailureRaises ==
    \A p \in Evals :
        ev[p].remote_failed =>
            /\ ev[p].pc = "raised"
            /\ ev[p].result = None
            /\ ev[p].cache_gets = 1 /\ ev[p].remote_calls = 1

\* The lookup failed for a product the inherited check would have admitted.
C2_Witness ==
    \E p \in Evals :
        /\ ev[p].remote_failed
        /\ ev[p].pc = "raised"
        /\ ev[p].product.inherited
        /\ truthy_str(range.catalog_query)
        /\ SeatTypeIsAnEntry(range, ev[p].product)

\* C9: contains_product returns the mode's reference result: in a dynamic
\* mode, for a product whose seat type passes and whose lookup succeeds, the
\* catalog service's answer or the inherited membership; with a catalog only,
\* the product being one of the catalog's stock-record products or the
\* inherited membership; with no mode set, the inherited membership.
C9_MembershipByMode ==
    \A p \in Evals :
        ev[p].pc = "done" =>
            LET product == ev[p].product
            IN  /\ DynamicMode(range) /\ SeatTypeIsAnEntry(range, product) =>
                      ev[p].result =
                          Some(remote_answer[product.course_id] \/ product.inherited)
                /\ CatalogOnlyMode(range) =>
                      ev[p].result =
                          Some(product.id \in range.catalog[1] \/ product.inherited)
                /\ NoMode(range) => ev[p].result = Some(product.inherited)

\* The inherited check admits a product that the catalog service, asked,
\* does not hold to be in the catalog.
C9_Witness ==
    \E p \in Evals :
        /\ ev[p].pc = "done"
        /\ truthy_int(range.course_catalog)
        /\ ev[p].remote_calls = 1
        /\ ev[p].product.inherited
        /\ ~remote_answer[ev[p].product.course_id]
        /\ ev[p].result = Some(TRUE)

\* C10: in a dynamic mode, a product whose seat type, lower-cased, is not one
\* of the entries of course_seat_types gets the inherited membership with no
\* cache lookup and no remote call; only products whose seat type is one of
\* the entries are looked up.
C10_GateByEntry ==
    \A p \in Evals :
        ev[p].pc # "idle" /\ DynamicMode(range)
           /\ ~SeatTypeIsAnEntry(range, ev[p].product) =>
            /\ ev[p].cache_gets = 0
            /\ ev[p].remote_calls = 0
            /\ ev[p].pc = "done"
            /\ ev[p].result = Some(ev[p].product.inherited)

\* The evaluation looked a key up in the cache (it ran catalog_contains_product
\* or run_catalog_query).
LookedUp(e) == e.cache_gets = 1

\* C11: the lookup is cache-aside. An invocation that finds the key in the
\* cache makes no remote call, returns the cached response and leaves the
\* cache as it is; one that does not find it makes exactly one remote call
\* and, when the call succeeds, stores the response under the key with the
\* configured timeout; so an invocation that finds the entry of an earlier one
\* returns the same response without a remote call.
C11_CacheAside ==
    /\ [](\A p \in Evals :
            /\ ev[p].pc = "remote" => LookedUp(ev[p]) /\ ev[p].remote_calls = 0
            /\ ev[p].pc \in {"fetched", "raised"} =>
                  LookedUp(ev[p]) /\ ev[p].remote_calls = 1
            /\ ev[p].remote_calls = 1 => ev[p].pc \in {"fetched", "raised", "done"}
            /\ ev[p].remote_calls \in {0, 1}
            /\ \A q \in Evals :
                  /\ ev[p].pc = "done" /\ LookedUp(ev[p]) /\ ev[p].remote_calls = 1
                  /\ ev[q].pc = "done" /\ LookedUp(ev[q]) /\ ev[q].remote_calls = 0
                  /\ lookup_key(range, ev[p].product) = lookup_key(range, ev[q].product)
                  => ev[q].response = ev[p].response)
    /\ [][\A p \in Evals :
            LET key == lookup_key(range, ev'[p].product)
            IN  /\ ev[p].pc = "idle" /\ LookedUp(ev'[p]) /\ cache_get(key) # None =>
                      /\ ev'[p].pc = "done"
                      /\ ev'[p].remote_calls = 0
                      /\ ev'[p].response = cache_get(key)
                      /\ cache' = cache
                /\ ev[p].pc = "idle" /\ LookedUp(ev'[p]) /\ cache_get(key) = None =>
                      /\ ev'[p].pc = "remote"
                      /\ cache' = cache
                /\ ev[p].pc = "remote" /\ ev'[p] # ev[p] =>
                      /\ ev'[p].remote_calls = 1
                      /\ ev'[p].pc \in {"fetched", "raised"}
                      /\ cache' = cache
                /\ ev[p].pc = "fetched" /\ ev'[p] # ev[p] =>
                      /\ ev'[p].pc = "done"
                      /\ ev'[p].remote_calls = 1
                      /\ [key |-> key, response |-> ev[p].response[1],
                          timeout |-> COURSES_API_CACHE_TIMEOUT] \in cache'
                      /\ \A e \in cache' : e.key = key => e.response = ev[p].response[1]]_vars

\* One evaluation missed, asked the catalog service and stored the answer;
\* another, for another product of the same course, found the entry and
\* returned the same response without a remote call.
C11_Witness ==
    \E p, q \in Evals :
        /\ ev[p].pc = "done" /\ LookedUp(ev[p]) /\ ev[p].remote_calls = 1
        /\ ev[q].pc = "done" /\ LookedUp(ev[q]) /\ ev[q].remote_calls = 0
        /\ ev[p].product.id # ev[q].product.id
        /\ lookup_key(range, ev[p].product) = lookup_key(range, ev[q].product)
        /\ ev[q].response = ev[p].response
        /\ ev[q].response # None
        /\ cache_get(lookup_key(range, ev[p].product)) = ev[p].response

\* What the catalog service answers for a cache key.
RemoteAnswerFor(key) ==
    IF key.resource = "catalogs.contains"
       THEN [courses |-> (key.course_id :> remote_answer[key.course_id])]
       ELSE [course_runs |-> (key.course_id :> remote_answer[key.course_id])]

\* C12: however the evaluations of contains_product interleave, with the
\* catalog service giving one answer per key: each makes at most one remote
\* call, each that returns after a lookup returns what a run on its own
\* returns (the service's answer or the inherited membership), and the cache
\* holds at most one entry per key, equal to the service's answer.
C12_ConcurrentEvaluationsAgree ==
    /\ \A p \in Evals :
          /\ ev[p].remote_calls <= 1
          /\ ev[p].pc = "done" /\ LookedUp(ev[p]) =>
                ev[p].result = Some(\/ remote_answer[ev[p].product.course_id]
                                    \/ ev[p].product.inherited)
    /\ \A e \in cache :
          /\ e.response = RemoteAnswerFor(e.key)
          /\ \A f \in cache : f.key = e.key => f = e

\* Two evaluations were in flight on one key: both missed and both called the
\* catalog service; one has stored its response and returned, the other is
\* about to store the same entry again.
C12_Witness ==
    \E p, q \in Evals :
        /\ p # q
        /\ lookup_key(range, ev[p].product) = lookup_key(range, ev[q].product)
        /\ ev[p].pc = "done" /\ ev[p].remote_calls = 1
        /\ ev[q].pc = "fetched" /\ ev[q].remote_calls = 1
        /\ ev[p].product.inherited # ev[q].product.inherited
        /\ cache = {[key |-> lookup_key(range, ev[p].product),
                     response |-> ev[q].response[1],
                     timeout |-> COURSES_API_CACHE_TIMEOUT]}

\* C13: when the basket owner is not linked to the enterprise customer, apply
\* returns a discount of 0 straight away: the applicable lines are not read,
\* no line is discounted or recorded and consume_items is not called.
C13_NotLinkedNoAllocation ==
    pc # "idle" /\ ~apply_in.linked =>
        /\ pc \in {"start", "done"}
        /\ calls = <<>>
        /\ affected_lines = <<>>
        /\ affected_items = 0 /\ discount = 0 /\ idx = 1
        /\ pc = "done" => result = Some(0)

\* The owner is not linked and the basket holds two lines that a 50% benefit
\* would have discounted.
C13_Witness ==
    /\ pc = "done"
    /\ ~apply_in.linked
    /\ apply_in.value = 50 /\ apply_in.discount_percent = None
    /\ apply_in.max_total_discount = None
    /\ Len(apply_in.line_tuples) = 2
    /\ \A i \in 1 .. 2 : apply_in.line_tuples[i].quantity_without_discount > 0
    /\ result = Some(0)
    /\ calls = <<>>

(***************************************************************************)
(* Properties of is_condition_satisfied                                    *)
(***************************************************************************)

\* C14: is_condition_satisfied checks the email first. When email_domains is
\* set and is_email_valid of the owner's email is false it returns False and
\* the inherited check is not invoked, so no range membership is resolved, the
\* cache is not read and the catalog service is not called; when the email
\* passes, the inherited check is invoked once and its result returned.
C14_EmailCheckedFirst ==
    offer_pc # "idle" =>
        LET valid == is_email_valid(offer_in.email_domains, offer_in.email)
        IN  /\ offer_pc \in {"start", "checked"} =>
                  offer_calls = <<>> /\ offer_result = None
            /\ offer_pc = "done" /\ ~valid =>
                  /\ truthy_str(offer_in.email_domains)
                  /\ offer_result = Some(FALSE)
                  /\ offer_calls = <<>>
                  /\ cache = {}
                  /\ \A p \in Evals : ev[p] = IdleEval
            /\ offer_pc = "done" /\ valid =>
                  /\ offer_result = Some(offer_in.base_satisfied)
                  /\ offer_calls = <<"super.is_condition_satisfied">>

\* The owner's email is outside the offer's domains while the inherited
\* check would have been satisfied.
C14_Witness ==
    /\ offer_pc = "done"
    /\ offer_in.email_domains = Some(s_example_com_other_org)
    /\ offer_in.email = e_a_other_com
    /\ offer_in.base_satisfied
    /\ offer_result = Some(FALSE)
    /\ offer_calls = <<>>

(***************************************************************************)
(* Properties of apply as a function of its inputs                         *)
(***************************************************************************)

\* The percentage apply is given: its argument or, without one, the benefit's
\* value.
GivenPercent(in) ==
    IF in.discount_percent = None THEN in.value ELSE in.discount_percent[1]

\* The loop of apply as a function: the lines from position i on, with the
\* budget left and what was accumulated so far.
RECURSIVE Allocate(_, _, _, _, _, _)
Allocate(lines, i, percent, max, available, acc) ==
    IF i > Len(lines) \/ acc.affected_items >= max \/ available = Some(0) THEN acc
    ELSE LET quantity_affected ==
                 quantity_affected_of(lines[i], max, acc.affected_items)
             line_discount ==
                 clamped_discount(
                     line_discount_of(percent, lines[i].price, quantity_affected),
                     available)
         IN  Allocate(lines, i + 1, percent, max,
                      remaining_after(line_discount, available),
                      [affected_lines |->
                           Append(acc.affected_lines,
                                  [line |-> i, line_discount |-> line_discount,
                                   quantity_affected |-> quantity_affected]),
                       affected_items |-> acc.affected_items + quantity_affected,
                       discount |-> acc.discount + line_discount])

\* What apply yields for a linked owner with the given percentage and budget:
\* the total, the affected lines and whether the items are consumed.
Outcome(in, percent, budget) ==
    LET end == Allocate(in.line_tuples, 1, clamped_percent(percent),
                        effective_max_affected_items(in.max_affected_items), budget,
                        [affected_lines |-> <<>>, affected_items |-> 0, discount |-> 0])
    IN  [total |-> end.discount, affected_lines |-> end.affected_lines,
         consumed |-> consumes(end.discount)]

\* What the finished run yielded.
RunOutcome ==
    [total |-> result[1], affected_lines |-> affected_lines,
     consumed |-> ConsumeCalls # {}]

\* C15: with a percentage of 100 or more, whatever the lines and the caps,
\* apply yields the total, the affected lines (line, line_discount,
\* quantity_affected) and the consume decision it yields with 100 on the same
\* inputs.
C15_Over100Is100 ==
    pc = "done" /\ apply_in.linked /\ GivenPercent(apply_in) >= 100 =>
        RunOutcome = Outcome(apply_in, 100, apply_in.max_total_discount)

\* A benefit of 150% over two lines, with no cap: each line is discounted by
\* its whole price, not more.
C15_Witness ==
    /\ pc = "done"
    /\ apply_in.linked
    /\ apply_in.value = 150 /\ apply_in.discount_percent = None
    /\ apply_in.max_total_discount = None /\ apply_in.max_affected_items = None
    /\ Len(affected_lines) = 2
    /\ \A i \in 1 .. 2 :
          /\ affected_lines[i].quantity_affected = 2
          /\ affected_lines[i].line_discount = 2 * apply_in.line_tuples[i].price
    /\ ConsumeCalls # {}

\* The scenario of a 50% benefit with max_affected_items = 2 over a line of
\* 3 units at 10.00 and a line of 1 unit at 20.00, with no budget.
GreedyScenario ==
    /\ apply_in.linked
    /\ GivenPercent(apply_in) = 50
    /\ apply_in.max_affected_items = Some(2)
    /\ apply_in.max_total_discount = None
    /\ apply_in.line_tuples = <<[price |-> 1000, quantity_without_discount |-> 3],
                                [price |-> 2000, quantity_without_discount |-> 1]>>

\* C16: the allocation is one greedy pass in the order of the lines, with no
\* line passed over: the affected lines are the first lines, in order, each
\* but the last with its whole quantity_without_discount; a line is affected
\* only while the units affected before it are below the effective
\* max_affected_items and the budget left before it is not 0; once one of the
\* two is reached the loop is left and no later line is examined, discounted
\* or recorded. In the scenario the first line gets 10.00 for 2 units, the
\* second is untouched and the total is 10.00.
C16_GreedyInOrder ==
    /\ [](pc \in {"loop", "after", "done"} /\ apply_in.linked =>
            LET n == Len(affected_lines)
                max == effective_max_affected_items(apply_in.max_affected_items)
                budget == apply_in.max_total_discount
            IN  /\ n = idx - 1
                /\ n = Cardinality(DiscountCalls)
                /\ \A i \in 1 .. n :
                      /\ affected_lines[i].line = i
                      /\ SumQuantity(SubSeq(affected_lines, 1, i - 1)) < max
                      /\ budget # None =>
                            SumDiscount(SubSeq(affected_lines, 1, i - 1)) < budget[1]
                      /\ i < n => affected_lines[i].quantity_affected =
                                      apply_in.line_tuples[i].quantity_without_discount
                /\ pc = "done" /\ GreedyScenario =>
                      /\ affected_lines = <<[line |-> 1, line_discount |-> 1000,
                                             quantity_affected |-> 2]>>
                      /\ result = Some(1000))
    /\ [][/\ (pc = "loop" /\ affected_items >= max_affected_items) =>
                 (pc' = "after" /\ idx' = idx /\ affected_lines' = affected_lines
                                /\ calls' = calls)
          /\ (pc = "loop" /\ discount_amount_available = Some(0)) =>
                 (pc' = "after" /\ idx' = idx /\ affected_lines' = affected_lines
                                /\ calls' = calls)
          /\ (pc \in {"after", "done"}) =>
                 (idx' = idx /\ affected_lines' = affected_lines)]_vars

\* The scenario's run is over: the loop was left before the second line.
C16_Witness ==
    /\ pc = "done"
    /\ GreedyScenario
    /\ idx = 2
    /\ Len(affected_lines) = 1
    /\ affected_items = 2
    /\ result = Some(1000)

\* The discount of the i-th affected line was cut by the budget.
ClampedByBudget(i) ==
    affected_lines[i].line_discount <
        line_discount_of(discount_percent, apply_in.line_tuples[affected_lines[i].line].price,
                         affected_lines[i].quantity_affected)

\* C17: for a budget B >= 0 (and percentages, prices and quantities that are
\* not negative), the total apply returns is the smaller of B and the total
\* it returns on the same inputs with no budget; all along the loop the
\* budget left is at least 0 and, added to the discount accumulated, makes B;
\* and a line whose discount the budget cut is the last line affected.
C17_BudgetIsMinimum ==
    pc \in {"loop", "after", "done"} /\ apply_in.linked =>
        LET B == apply_in.max_total_discount
            unbounded == Outcome(apply_in, GivenPercent(apply_in), None)
        IN  /\ B = None => discount_amount_available = None
            /\ B = None /\ pc = "done" => RunOutcome = unbounded
            /\ B # None =>
                  /\ discount_amount_available # None
                  /\ discount_amount_available[1] >= 0
                  /\ discount_amount_available[1] + discount = B[1]
                  /\ \A i \in 1 .. Len(affected_lines) :
                        ClampedByBudget(i) => i = Len(affected_lines)
                  /\ pc = "done" => result = Some(Min(B[1], unbounded.total))

\* A budget of 15.00 over two lines worth 10.00 and 20.00 at 100%: the second
\* line's discount is cut to the 5.00 left.
C17_Witness ==
    /\ pc = "done"
    /\ apply_in.linked
    /\ apply_in.max_total_discount = Some(1500)
    /\ Outcome(apply_in, GivenPercent(apply_in), None).total = 3000
    /\ Len(affected_lines) = 2
    /\ ~ClampedByBudget(1) /\ ClampedByBudget(2)
    /\ affected_lines[2].line_discount = 500
    /\ discount_amount_available = Some(0)
    /\ result = Some(1500)

(***************************************************************************)
(* Properties of the lookups' failures                                     *)
(***************************************************************************)

\* Every evaluation other than q that looked the key up has failed, and there
\* is one.
OnlyFailuresBefore(q, key) ==
    /\ \E p \in Evals \ {q} :
          LookedUp(ev[p]) /\ lookup_key(range, ev[p].product) = key
    /\ \A p \in Evals \ {q} :
          LookedUp(ev[p]) /\ lookup_key(range, ev[p].product) = key =>
              ev[p].pc = "raised"

\* C18: a lookup that fails writes nothing to the cache, so a failure is never
\* cached: every entry of the cache is the response of a remote call that
\* succeeded; an invocation that raises leaves the cache as it was; and after
\* invocations that all failed for a key, the next one for that key finds no
\* entry and goes to the catalog service, whose answer, once it answers,
\* decides the membership it returns.
C18_FailuresNotCached ==
    /\ []( /\ \A e \in cache :
                \E p \in Evals :
                    /\ ev[p].pc = "done" /\ ev[p].remote_calls = 1
                    /\ ~ev[p].remote_failed
                    /\ lookup_key(range, ev[p].product) = e.key
                    /\ ev[p].response = Some(e.response)
           /\ \A p \in Evals :
                /\ ev[p].pc = "raised" =>
                      ev[p].remote_failed /\ ev[p].response = None /\ ev[p].result = None
                /\ ev[p].pc = "done" /\ ev[p].remote_calls = 1 =>
                      /\ ev[p].response =
                             Some(RemoteAnswerFor(lookup_key(range, ev[p].product)))
                      /\ ev[p].result = Some(\/ remote_answer[ev[p].product.course_id]
                                              \/ ev[p].product.inherited))
    /\ [][\A p \in Evals :
            /\ (ev[p].pc # "raised" /\ ev'[p].pc = "raised") => cache' = cache
            /\ (/\ ev[p].pc = "idle" /\ LookedUp(ev'[p])
                /\ OnlyFailuresBefore(p, lookup_key(range, ev'[p].product))) =>
                  (ev'[p].pc = "remote" /\ cache' = cache)]_vars

\* A lookup failed while the catalog service was down; the service is up
\* again and another evaluation for the same key got its answer from it: the
\* course is in the catalog, and the entry in the cache says so.
C18_Witness ==
    \E p, q \in Evals :
        /\ ev[p].pc = "raised" /\ ev[p].remote_failed
        /\ ev[q].pc = "done" /\ ev[q].remote_calls = 1
        /\ lookup_key(range, ev[p].product) = lookup_key(range, ev[q].product)
        /\ remote_up
        /\ remote_answer[ev[q].product.course_id]
        /\ ~ev[q].product.inherited
        /\ ev[q].result = Some(TRUE)
        /\ cache_get(lookup_key(range, ev[q].product)) = ev[q].response

=============================================================================
